---- MODULE Spec2Model ----
(***************************************************************************)
(* The transfer pipeline of azure_loader (main.go): one reader goroutine   *)
(* (readerLoop), N worker goroutines (FromS3Copier.DoCopy) and the result  *)
(* loop of main, connected by the unbuffered channel `inputs` and the      *)
(* buffered channel `results` of capacity 2*N.                             *)
(***************************************************************************)
EXTENDS Integers, Sequences, FiniteSets, TLC

\* ---------------------------------------------------------------- bounds
MaxLines == 3
MaxWorkers == 2
MaxTierFlags == 2
MaxNameLen == 3
MaxKeyLen == 4

\* ------------------------------------------------------- values and input
\* One input line as csv.Reader.Read returns it: a record of 1, 2 or 3
\* fields, or a read error other than io.EOF.
LineKinds == {"fields2", "fields1", "fields3", "ioErr"}

\* len(line) for a line that Read returned without error.
FieldCount(l) == CASE l = "fields1" -> 1
                   [] l = "fields2" -> 2
                   [] l = "fields3" -> 3
                   [] OTHER -> 0

RECURSIVE SeqsUpTo(_, _)
SeqsUpTo(S, n) ==
    IF n = 0 THEN {<<>>}
    ELSE LET shorter == SeqsUpTo(S, n - 1)
         IN  shorter \cup {Append(s, x) : s \in {t \in shorter : Len(t) = n - 1}, x \in S}

\* The error value CopyFile returns: nil, or the error of the failing stage.
CopyErrors == {"decodeErr", "downloadErr", "uploadErr"}
CopyResults == {"nil"} \cup CopyErrors

\* errCloseSentinel = errors.New("finished")
errCloseSentinel == "finished"

VARIABLES
    input,          \* the lines of the input file
    N,              \* *concurrency
    ctxErr,         \* c.ctx.Err() != nil
    rdLine,         \* readerLoop: i, the line being read
    rdPc,           \* readerLoop goroutine: "read", "send", "closed"
    inputsClosed,   \* the inputs channel has been closed
    fatal,          \* log.Fatalf has ended the process
    wPc,            \* DoCopy of worker w: "recv", "copy", "send", "sentinel", "done"
    wItem,          \* the line number of the work item worker w holds, 0 if none
    wRes,           \* err of worker w, to be sent on resultsChannel; nil outside the loop body
    results,        \* the buffered results channel
    resultsClosed,  \* close(results) was called
    panicked,       \* a send on the closed results channel panicked
    aggPc,          \* main: "loop", "return", "exit", "done"
    expectedCloses, seen, seenOk,
    copiedLog,      \* number of "Copied" lines logged
    errorLog,       \* number of "Error: " lines logged
    summaryLog,     \* number of "Processed ..." lines logged
    takes,          \* takes[i]: how many times item i was received from inputs
    pushedOut,      \* pushedOut[i]: results sent for item i
    markers,        \* markers[w]: sentinels sent by worker w
    lateSends,      \* results sent by a worker after its own sentinel
    rcvMarkers,     \* sentinels the result loop has received
    rcvOutcomes,    \* other values the result loop has received
    tierPc,         \* flag.Parse and after: "parse", "run", "exit"
    flagArgs,       \* the values of the -azure-tier flags still to be parsed
    tierVal,        \* azureTier.val: "nil" or an access tier
    setArg,         \* the argument of the last AzureTier.Set call, "none" before
    setErr,         \* what that call returned: "nil" or "error"
    uploadTier,     \* the AccessTier option of the last UploadStream, "none" before
    bucket,         \* wi.Bucket of the CopyFile call under study
    mapPc,          \* "start", "mapped"
    azureContainer, \* azureContainer of that call
    wiKey,          \* wi.Key of the CopyFile call under study
    keyPc,          \* CopyFile: "start", "decoded", "failed", "download", "upload"
    key,            \* key, the result of url.QueryUnescape
    srcKey,         \* Key of the GetObject input
    dstKey          \* the blob name passed to UploadStream

vars == <<input, N, ctxErr, rdLine, rdPc, inputsClosed, fatal, wPc, wItem, wRes,
          results, resultsClosed, panicked, aggPc, expectedCloses, seen, seenOk,
          copiedLog, errorLog, summaryLog, takes, pushedOut, markers,
          lateSends, rcvMarkers, rcvOutcomes, tierPc, flagArgs, tierVal, setArg,
          setErr, uploadTier, bucket, mapPc, azureContainer, wiKey, keyPc, key,
          srcKey, dstKey>>

readerVars == <<rdLine, rdPc, inputsClosed, fatal>>
workerVars == <<wPc, wItem, wRes>>
aggVars    == <<aggPc, expectedCloses, seen, seenOk, errorLog, summaryLog,
                rcvMarkers, rcvOutcomes>>
ghostVars  == <<takes, pushedOut, markers, lateSends>>
tierVars   == <<tierPc, flagArgs, tierVal, setArg, setErr, uploadTier>>
mapVars    == <<bucket, mapPc, azureContainer>>
keyVars    == <<wiKey, keyPc, key, srcKey, dstKey>>
unitVars   == <<tierVars, mapVars, keyVars>>
pipeVars   == <<input, N, ctxErr, readerVars, workerVars, results, resultsClosed,
                panicked, aggVars, copiedLog, ghostVars>>

Workers == 1..N
Lines == 1..Len(input)

\* cap(results) = 2*(*concurrency)
ResultsCap == 2 * N

\* The process is alive: no log.Fatal, no panic, main has not returned.
Running == ~fatal /\ ~panicked /\ aggPc # "done"

\* len(line) != 2, the field count check of readerLoop.
WrongFieldCount_Less(n) == n < 2
WrongFieldCount(n) == n # 2

\* res == errCloseSentinel, the test of the result loop.
IsSentinel_AnyError(res) == res # "nil"
IsSentinel(res) == res = errCloseSentinel

\* The branch of the result loop that logs "Error: ": res is neither nil
\* nor the sentinel.
LogsError_NoPass(res) == res # "nil"
LogsError(res) == res # "nil" /\ ~IsSentinel(res)

\* `range results` ends on an empty channel only when it has been closed;
\* on an open one the receive blocks.
RangeEnds_NoBlock(closed) == TRUE
RangeEnds(closed) == closed

\* expectedCloses == 0, tested after the decrement.
AllClosed_Early(ec) == ec <= 1
AllClosed(ec) == ec = 0

\* ------------------------------------------------------------------ Init
\* The package-level state before flag.Parse, and no CopyFile call singled
\* out for study.
TierIdle ==
    /\ tierPc = "parse"
    /\ flagArgs = <<>>
    /\ tierVal = "nil"
    /\ setArg = "none"
    /\ setErr = "none"
    /\ uploadTier = "none"

MapIdle ==
    /\ bucket = <<>>
    /\ mapPc = "start"
    /\ azureContainer = <<>>

KeyIdle ==
    /\ wiKey = <<>>
    /\ keyPc = "start"
    /\ key = <<>>
    /\ srcKey = <<>>
    /\ dstKey = <<>>

UnitIdle == TierIdle /\ MapIdle /\ KeyIdle

\* main up to the result loop, for input lines in and worker count n.
PipeInit(in, n) ==
    /\ input = in
    /\ N = n
    /\ ctxErr = FALSE
    /\ rdLine = 1
    /\ rdPc = "read"
    /\ inputsClosed = FALSE
    /\ fatal = FALSE
    /\ wPc = [w \in 1..n |-> "recv"]
    /\ wItem = [w \in 1..n |-> 0]
    /\ wRes = [w \in 1..n |-> "nil"]
    /\ results = <<>>
    /\ resultsClosed = FALSE
    /\ panicked = FALSE
    /\ aggPc = "loop"
    /\ expectedCloses = n
    /\ seen = 0
    /\ seenOk = 0
    /\ copiedLog = 0
    /\ errorLog = 0
    /\ summaryLog = 0
    /\ takes = [i \in 1..Len(in) |-> 0]
    /\ pushedOut = [i \in 1..Len(in) |-> 0]
    /\ markers = [w \in 1..n |-> 0]
    /\ lateSends = 0
    /\ rcvMarkers = 0
    /\ rcvOutcomes = 0

Init ==
    /\ \E in \in SeqsUpTo(LineKinds, MaxLines), n \in 1..MaxWorkers : PipeInit(in, n)
    /\ UnitIdle

\* ------------------------------------------------------------ readerLoop
\* One iteration of the reader's loop up to the send: Read, the error
\* checks, the field count check.  io.EOF leaves the loop and the deferred
\* close(output) runs; log.Fatalf ends the process.
ReaderRead ==
    /\ Running
    /\ rdPc = "read"
    /\ IF rdLine > Len(input)
       THEN /\ rdPc' = "closed"
            /\ inputsClosed' = TRUE
            /\ UNCHANGED fatal
       ELSE IF input[rdLine] = "ioErr"
       THEN /\ fatal' = TRUE
            /\ UNCHANGED <<rdPc, inputsClosed>>
       ELSE IF WrongFieldCount(FieldCount(input[rdLine]))
       THEN /\ fatal' = TRUE
            /\ UNCHANGED <<rdPc, inputsClosed>>
       ELSE /\ rdPc' = "send"
            /\ UNCHANGED <<fatal, inputsClosed>>
    /\ UNCHANGED <<unitVars, input, N, ctxErr, rdLine, workerVars, results, resultsClosed,
                   panicked, aggVars, copiedLog, ghostVars>>

\* output <- &CopyWorkItem{...} meets `for workItem := range inputs` of
\* worker w: inputs is unbuffered, so send and receive are one step.
Handoff(w) ==
    /\ Running
    /\ rdPc = "send"
    /\ wPc[w] = "recv"
    /\ rdPc' = "read"
    /\ rdLine' = rdLine + 1
    /\ wPc' = [wPc EXCEPT ![w] = "copy"]
    /\ wItem' = [wItem EXCEPT ![w] = rdLine]
    /\ takes' = [takes EXCEPT ![rdLine] = @ + 1]
    /\ UNCHANGED <<unitVars, input, N, ctxErr, inputsClosed, fatal, wRes, results,
                   resultsClosed, panicked, aggVars, copiedLog,
                   pushedOut, markers, lateSends>>

\* ---------------------------------------------------------------- DoCopy
\* (variant) a receive that does not wait: the loop is left as soon as no
\* item is ready.
WorkerRangeEnd_NoWait(w) ==
    /\ Running
    /\ wPc[w] = "recv"
    /\ rdPc # "send"
    /\ wPc' = [wPc EXCEPT ![w] = "sentinel"]
    /\ UNCHANGED <<unitVars, input, N, ctxErr, readerVars, wItem, wRes, results,
                   resultsClosed, panicked, aggVars, copiedLog, ghostVars>>

\* range inputs ends: the channel is closed (and, unbuffered, empty).
WorkerRangeEnd(w) ==
    /\ Running
    /\ wPc[w] = "recv"
    /\ inputsClosed
    /\ wPc' = [wPc EXCEPT ![w] = "sentinel"]
    /\ UNCHANGED <<unitVars, input, N, ctxErr, readerVars, wItem, wRes, results,
                   resultsClosed, panicked, aggVars, copiedLog, ghostVars>>

\* (variant) a worker that returns at once when its context is cancelled,
\* without the send after the loop.
WorkerCopy_ReturnOnCancel(w) ==
    /\ Running
    /\ wPc[w] = "copy"
    /\ IF ctxErr
       THEN /\ wPc' = [wPc EXCEPT ![w] = "done"]
            /\ wItem' = [wItem EXCEPT ![w] = 0]
            /\ UNCHANGED <<wRes, copiedLog>>
       ELSE \E r \in CopyResults :
            /\ wRes' = [wRes EXCEPT ![w] = r]
            /\ wPc' = [wPc EXCEPT ![w] = "send"]
            /\ copiedLog' = IF r = "nil" THEN copiedLog + 1 ELSE copiedLog
            /\ UNCHANGED wItem
    /\ UNCHANGED <<unitVars, input, N, ctxErr, readerVars, results, resultsClosed,
                   panicked, aggVars, ghostVars>>

\* The loop body up to the send: the ctx.Err() check, then CopyFile, whose
\* result is nil (and a "Copied" line) or the error of the failing stage.
WorkerCopy(w) ==
    /\ Running
    /\ wPc[w] = "copy"
    /\ IF ctxErr
       THEN /\ wPc' = [wPc EXCEPT ![w] = "sentinel"]
            /\ wItem' = [wItem EXCEPT ![w] = 0]
            /\ UNCHANGED <<wRes, copiedLog>>
       ELSE \E r \in CopyResults :
            /\ wRes' = [wRes EXCEPT ![w] = r]
            /\ wPc' = [wPc EXCEPT ![w] = "send"]
            /\ copiedLog' = IF r = "nil" THEN copiedLog + 1 ELSE copiedLog
            /\ UNCHANGED wItem
    /\ UNCHANGED <<unitVars, input, N, ctxErr, readerVars, results, resultsClosed,
                   panicked, aggVars, ghostVars>>

\* (variant) a worker that leaves its loop after a failed CopyFile.
WorkerSend_StopOnError(w) ==
    /\ Running
    /\ wPc[w] = "send"
    /\ IF resultsClosed
       THEN /\ panicked' = TRUE
            /\ UNCHANGED <<results, wPc, wItem, wRes, pushedOut, lateSends>>
       ELSE /\ Len(results) < ResultsCap
            /\ results' = Append(results, wRes[w])
            /\ wPc' = [wPc EXCEPT ![w] = IF wRes[w] = "nil" THEN "recv" ELSE "sentinel"]
            /\ wItem' = [wItem EXCEPT ![w] = 0]
            /\ pushedOut' = [pushedOut EXCEPT ![wItem[w]] = @ + 1]
            /\ wRes' = [wRes EXCEPT ![w] = "nil"]
            /\ lateSends' = IF markers[w] > 0 THEN lateSends + 1 ELSE lateSends
            /\ UNCHANGED panicked
    /\ UNCHANGED <<unitVars, input, N, ctxErr, readerVars, resultsClosed, aggVars,
                   copiedLog, takes, markers>>

\* resultsChannel <- err, then back to the range.  The send blocks while
\* the buffer is full and panics on a closed channel.
WorkerSend(w) ==
    /\ Running
    /\ wPc[w] = "send"
    /\ IF resultsClosed
       THEN /\ panicked' = TRUE
            /\ UNCHANGED <<results, wPc, wItem, wRes, pushedOut, lateSends>>
       ELSE /\ Len(results) < ResultsCap
            /\ results' = Append(results, wRes[w])
            /\ wPc' = [wPc EXCEPT ![w] = "recv"]
            /\ wItem' = [wItem EXCEPT ![w] = 0]
            /\ pushedOut' = [pushedOut EXCEPT ![wItem[w]] = @ + 1]
            /\ wRes' = [wRes EXCEPT ![w] = "nil"]
            /\ lateSends' = IF markers[w] > 0 THEN lateSends + 1 ELSE lateSends
            /\ UNCHANGED panicked
    /\ UNCHANGED <<unitVars, input, N, ctxErr, readerVars, resultsClosed, aggVars,
                   copiedLog, takes, markers>>

\* (variant) a worker that returns without sending the sentinel.
WorkerSentinel_NoSend(w) ==
    /\ Running
    /\ wPc[w] = "sentinel"
    /\ wPc' = [wPc EXCEPT ![w] = "done"]
    /\ UNCHANGED <<unitVars, input, N, ctxErr, readerVars, wItem, wRes, results,
                   resultsClosed, panicked, aggVars, copiedLog, ghostVars>>

\* (variant) the sentinel sent inside the loop: the worker ranges again.
WorkerSentinel_Loop(w) ==
    /\ Running
    /\ wPc[w] = "sentinel"
    /\ IF resultsClosed
       THEN /\ panicked' = TRUE
            /\ UNCHANGED <<results, wPc, markers>>
       ELSE /\ Len(results) < ResultsCap
            /\ results' = Append(results, errCloseSentinel)
            /\ wPc' = [wPc EXCEPT ![w] = "recv"]
            /\ markers' = [markers EXCEPT ![w] = @ + 1]
            /\ UNCHANGED panicked
    /\ UNCHANGED <<unitVars, input, N, ctxErr, readerVars, wItem, wRes, resultsClosed,
                   aggVars, copiedLog, takes, pushedOut, lateSends>>

\* resultsChannel <- errCloseSentinel, after the loop; DoCopy returns.
WorkerSentinel(w) ==
    /\ Running
    /\ wPc[w] = "sentinel"
    /\ IF resultsClosed
       THEN /\ panicked' = TRUE
            /\ UNCHANGED <<results, wPc, markers>>
       ELSE /\ Len(results) < ResultsCap
            /\ results' = Append(results, errCloseSentinel)
            /\ wPc' = [wPc EXCEPT ![w] = "done"]
            /\ markers' = [markers EXCEPT ![w] = @ + 1]
            /\ UNCHANGED panicked
    /\ UNCHANGED <<unitVars, input, N, ctxErr, readerVars, wItem, wRes, resultsClosed,
                   aggVars, copiedLog, takes, pushedOut, lateSends>>

\* ------------------------------------------------------------------ main
\* One iteration of `for res := range results`: receive the head of the
\* channel and run the loop body; on a closed and drained channel the loop
\* ends and the "Processed" line is logged.
AggStep ==
    /\ Running
    /\ aggPc = "loop"
    /\ IF results = <<>>
       THEN /\ RangeEnds(resultsClosed)
            /\ aggPc' = "exit"
            /\ summaryLog' = summaryLog + 1
            /\ UNCHANGED <<results, resultsClosed, expectedCloses, seen, seenOk,
                           errorLog, rcvMarkers, rcvOutcomes>>
       ELSE LET res == Head(results)
                ec  == IF IsSentinel(res) THEN expectedCloses - 1 ELSE expectedCloses
            IN
            /\ results' = Tail(results)
            /\ rcvMarkers' = IF res = errCloseSentinel THEN rcvMarkers + 1 ELSE rcvMarkers
            /\ rcvOutcomes' = IF res = errCloseSentinel THEN rcvOutcomes ELSE rcvOutcomes + 1
            /\ expectedCloses' = ec
            /\ IF IsSentinel(res) /\ AllClosed(ec)
               THEN /\ resultsClosed' = TRUE
                    /\ aggPc' = "return"
                    /\ UNCHANGED <<seen, seenOk, errorLog>>
               ELSE /\ seen' = seen + 1
                    /\ seenOk' = IF res = "nil" THEN seenOk + 1 ELSE seenOk
                    /\ errorLog' = IF LogsError(res) THEN errorLog + 1 ELSE errorLog
                    /\ UNCHANGED <<resultsClosed, aggPc>>
            /\ UNCHANGED summaryLog
    /\ UNCHANGED <<unitVars, input, N, ctxErr, readerVars, workerVars, panicked,
                   copiedLog, ghostVars>>

\* main returns (after close(results), or after the summary): the process
\* and every goroutine in it end.
AggReturn ==
    /\ ~fatal /\ ~panicked
    /\ aggPc \in {"return", "exit"}
    /\ aggPc' = "done"
    /\ UNCHANGED <<unitVars, input, N, ctxErr, readerVars, workerVars, results,
                   resultsClosed, panicked, expectedCloses, seen, seenOk,
                   errorLog, summaryLog, rcvMarkers, rcvOutcomes, copiedLog,
                   ghostVars>>

\* ------------------------------------------------------------ the program
Reader == ReaderRead
Worker(w) ==
    /\ w \in Workers
    /\ \/ Handoff(w)
       \/ WorkerRangeEnd(w)
       \/ WorkerCopy(w)
       \/ WorkerSend(w)
       \/ WorkerSentinel(w)
Aggregator == AggStep \/ AggReturn

Next ==
    \/ ReaderRead
    \/ \E w \in Workers : Handoff(w)
    \/ \E w \in Workers : WorkerRangeEnd(w)
    \/ \E w \in Workers : WorkerCopy(w)
    \/ \E w \in Workers : WorkerSend(w)
    \/ \E w \in Workers : WorkerSentinel(w)
    \/ AggStep
    \/ AggReturn

\* The program as built: NewS3Copier gives every FromS3Copier
\* context.Background(), which is never cancelled.
Spec == Init /\ [][Next]_vars

\* The Go scheduler runs every goroutine that can take a step, and every
\* transfer returns.
Fairness ==
    /\ WF_vars(Reader)
    /\ \A w \in 1..MaxWorkers : WF_vars(Worker(w))
    /\ WF_vars(Aggregator)

FairSpec == Spec /\ Fairness

\* DoCopy under a context that can be cancelled: the ctx field of
\* FromS3Copier turns to Err() != nil at any moment of the run.
Cancel ==
    /\ Running
    /\ ~ctxErr
    /\ ctxErr' = TRUE
    /\ UNCHANGED <<unitVars, input, N, readerVars, workerVars, results, resultsClosed,
                   panicked, aggVars, copiedLog, ghostVars>>

NextCancel == Next \/ Cancel

SpecCancel == Init /\ [][NextCancel]_vars

\* As long as some goroutine can take a step, one of them is run (less
\* than Fairness asks for).  Cancellation is an event of the environment:
\* no fairness for Cancel.
Progress == WF_vars(Next)

FairSpecCancel == SpecCancel /\ Progress

\* -j 0: flag.Int takes the value as it is; results is unbuffered, the loop
\* of main starts no worker and expectedCloses starts at 0.
InitZero ==
    /\ \E in \in SeqsUpTo(LineKinds, MaxLines) : PipeInit(in, 0)
    /\ UnitIdle

\* With no worker the only goroutine that can ever step is the reader
\* (C19_ZeroWorkers checks that the result loop never can).
NextZero == ReaderRead

SpecZero == InitZero /\ [][NextZero]_vars

\* ------------------------------------------------------------- AzureTier
\* blob.PossibleAccessTierValues(), the tiers the flag's usage text names.
PossibleAccessTierValues == <<"Archive", "Cold", "Cool", "Hot">>

AllowList == {PossibleAccessTierValues[k] : k \in 1..Len(PossibleAccessTierValues)}

\* The values given to -azure-tier on the command line.
TierArgs == AllowList \cup {"", "Bogus", "hot"}

\* s.val after Set(v) on an AzureTier whose val is val: "" stands for Hot,
\* the loop stores the tier equal to v, and leaves val alone if none is.
TierSetVal(val, v) ==
    LET v1 == IF v = "" THEN "Hot" ELSE v
    IN  IF \E k \in 1..Len(PossibleAccessTierValues) : PossibleAccessTierValues[k] = v1
        THEN v1
        ELSE val

\* What Set(v) returns: an error iff s.val is nil after the loop.
TierSetErr(val, v) == IF TierSetVal(val, v) = "nil" THEN "error" ELSE "nil"

\* flag.Parse meets one -azure-tier flag and calls azureTier.Set; an error
\* ends the process (flag.ExitOnError).
FlagSet ==
    /\ tierPc = "parse"
    /\ flagArgs # <<>>
    /\ tierVal' = TierSetVal(tierVal, Head(flagArgs))
    /\ setArg' = Head(flagArgs)
    /\ setErr' = TierSetErr(tierVal, Head(flagArgs))
    /\ flagArgs' = Tail(flagArgs)
    /\ tierPc' = IF TierSetErr(tierVal, Head(flagArgs)) = "error" THEN "exit" ELSE "parse"
    /\ UNCHANGED <<uploadTier, mapVars, keyVars, pipeVars>>

\* flag.Parse returns: no flag is left.
FlagParseDone ==
    /\ tierPc = "parse"
    /\ flagArgs = <<>>
    /\ tierPc' = "run"
    /\ UNCHANGED <<flagArgs, tierVal, setArg, setErr, uploadTier, mapVars, keyVars,
                   pipeVars>>

\* CopyFile calls UploadStream with AccessTier: azureTier.Get().
Upload ==
    /\ tierPc = "run"
    /\ uploadTier' = tierVal
    /\ UNCHANGED <<tierPc, flagArgs, tierVal, setArg, setErr, mapVars, keyVars,
                   pipeVars>>

InitTier ==
    /\ PipeInit(<<>>, 1)
    /\ MapIdle
    /\ KeyIdle
    /\ tierPc = "parse"
    /\ flagArgs \in SeqsUpTo(TierArgs, MaxTierFlags)
    /\ tierVal = "nil"
    /\ setArg = "none"
    /\ setErr = "none"
    /\ uploadTier = "none"

NextTier == FlagSet \/ FlagParseDone \/ Upload

SpecTier == InitTier /\ [][NextTier]_vars

\* -------------------------------------------------------------- CopyFile
\* Strings are sequences of one-character strings.
\* The characters of bucket names the model draws from.
NameChars == {".", "-", "a", "A"}

\* strings.Replace(s, old, new, n) for a one-character old: the first n
\* occurrences are replaced, all of them if n < 0.
RECURSIVE Replace(_, _, _, _)
Replace(s, old, new, n) ==
    IF s = <<>> THEN <<>>
    ELSE IF Head(s) = old /\ n # 0
         THEN <<new>> \o Replace(Tail(s), old, new, n - 1)
         ELSE <<Head(s)>> \o Replace(Tail(s), old, new, n)

\* strings.ReplaceAll(s, old, new)
ReplaceAll_First(s, old, new) == Replace(s, old, new, 1)
ReplaceAll(s, old, new) == Replace(s, old, new, -1)

\* azureContainer := strings.ReplaceAll(wi.Bucket, ".", "-")
MapContainer ==
    /\ mapPc = "start"
    /\ azureContainer' = ReplaceAll(bucket, ".", "-")
    /\ mapPc' = "mapped"
    /\ UNCHANGED <<bucket, tierVars, keyVars, pipeVars>>

InitMap ==
    /\ PipeInit(<<>>, 1)
    /\ TierIdle
    /\ KeyIdle
    /\ bucket \in SeqsUpTo(NameChars, MaxNameLen)
    /\ mapPc = "start"
    /\ azureContainer = <<>>

NextMap == MapContainer

SpecMap == InitMap /\ [][NextMap]_vars

\* The characters of keys the model draws from: the escape character, two
\* hex digits, the plus sign and a letter that is no hex digit.
KeyChars == {"%", "2", "0", "+", "k"}

HexLower == <<"0", "1", "2", "3", "4", "5", "6", "7", "8", "9", "a", "b", "c", "d", "e", "f">>
HexUpper == <<"0", "1", "2", "3", "4", "5", "6", "7", "8", "9", "A", "B", "C", "D", "E", "F">>

\* ishex(c) and unhex(c) of net/url.
IsHex(c) == \E k \in 1..16 : HexLower[k] = c \/ HexUpper[k] = c
Unhex(c) == (CHOOSE k \in 1..16 : HexLower[k] = c \/ HexUpper[k] = c) - 1

\* The character with byte value n, for the bytes the keys of the model
\* can decode to.
ByteChar(n) == CASE n = 0 -> "NUL"
                 [] n = 2 -> "STX"
                 [] n = 32 -> " "
                 [] n = 34 -> "\""
                 [] OTHER -> "BYTE"

\* The first pass of url.QueryUnescape: an EscapeError iff some % is not
\* followed by two hex digits.
RECURSIVE UnescapeErr(_)
UnescapeErr(s) ==
    IF s = <<>> THEN FALSE
    ELSE IF Head(s) = "%"
         THEN IF Len(s) < 3 \/ ~IsHex(s[2]) \/ ~IsHex(s[3])
              THEN TRUE
              ELSE UnescapeErr(SubSeq(s, 4, Len(s)))
         ELSE UnescapeErr(Tail(s))

\* (variant) url.PathUnescape: the plus sign is left as it is.
RECURSIVE Unescape_NoPlus(_)
Unescape_NoPlus(s) ==
    IF s = <<>> THEN <<>>
    ELSE IF Head(s) = "%"
         THEN <<ByteChar(16 * Unhex(s[2]) + Unhex(s[3]))>> \o Unescape_NoPlus(SubSeq(s, 4, Len(s)))
         ELSE <<Head(s)>> \o Unescape_NoPlus(Tail(s))

\* The second pass of url.QueryUnescape, for a string the first pass
\* accepted: %XX becomes the byte, + becomes a space.
RECURSIVE Unescape(_)
Unescape(s) ==
    IF s = <<>> THEN <<>>
    ELSE IF Head(s) = "%"
         THEN <<ByteChar(16 * Unhex(s[2]) + Unhex(s[3]))>> \o Unescape(SubSeq(s, 4, Len(s)))
         ELSE IF Head(s) = "+"
         THEN <<" ">> \o Unescape(Tail(s))
         ELSE <<Head(s)>> \o Unescape(Tail(s))

\* key, err := url.QueryUnescape(wi.Key); an error is returned at once.
CopyFileDecode ==
    /\ keyPc = "start"
    /\ IF UnescapeErr(wiKey)
       THEN /\ keyPc' = "failed"
            /\ UNCHANGED key
       ELSE /\ key' = Unescape(wiKey)
            /\ keyPc' = "decoded"
    /\ UNCHANGED <<wiKey, srcKey, dstKey, tierVars, mapVars, pipeVars>>

\* s3Client.GetObject with Key: &key; it fails or gives the body.
CopyFileGet ==
    /\ keyPc = "decoded"
    /\ srcKey' = key
    /\ keyPc' \in {"download", "failed"}
    /\ UNCHANGED <<wiKey, key, dstKey, tierVars, mapVars, pipeVars>>

\* azClient.UploadStream(ctx, azureContainer, key, ...)
CopyFileUpload ==
    /\ keyPc = "download"
    /\ dstKey' = key
    /\ keyPc' = "upload"
    /\ UNCHANGED <<wiKey, key, srcKey, tierVars, mapVars, pipeVars>>

InitKey ==
    /\ PipeInit(<<>>, 1)
    /\ TierIdle
    /\ MapIdle
    /\ wiKey \in SeqsUpTo(KeyChars, MaxKeyLen)
    /\ keyPc = "start"
    /\ key = <<>>
    /\ srcKey = <<>>
    /\ dstKey = <<>>

NextKey == CopyFileDecode \/ CopyFileGet \/ CopyFileUpload

SpecKey == InitKey /\ [][NextKey]_vars

\* ---------------------------------------------------------------- claims
\* The run has ended: main returned, or the process was ended by log.Fatalf
\* or by a panic.
RunEnded == aggPc = "done" \/ fatal \/ panicked

\* The result loop has stopped consuming after its last sentinel.
AggFinished == aggPc \in {"return", "done"}

\* Line l is structurally malformed: a read error, or not exactly 2 fields.
Malformed(l) == l = "ioErr" \/ FieldCount(l) # 2

\* The number of work items of a well-formed input.
M == Len(input)

\* C1: under fair scheduling the run ends (main returns, or the process is
\* ended by a fatal error), and in no reachable state of a run that has not
\* ended are reader, workers and result loop all unable to step.
C1_RunTerminates ==
    /\ [](RunEnded \/ ENABLED Next)
    /\ <>RunEnded

\* C1 witness: a run of the largest pool that ended normally although every
\* one of its transfers failed.
C1_Witness ==
    /\ aggPc = "done"
    /\ N = MaxWorkers
    /\ M = MaxLines
    /\ copiedLog = 0
    /\ errorLog = M
    /\ seenOk = 0

\* A worker is blocked sending on the full results channel (not a claim's
\* formula: the case of C1 that needs more items than workers).
WorkerBlockedOnFullResults ==
    /\ Len(results) = ResultsCap
    /\ \E w \in Workers : wPc[w] = "send"

\* C2: when the result loop has finished it has received exactly N
\* sentinels and exactly M other values, the results channel is empty and
\* every worker has returned.
C2_ExactlyNMarkersMOutcomes ==
    AggFinished =>
        /\ rcvMarkers = N
        /\ rcvOutcomes = M
        /\ results = <<>>
        /\ \A w \in Workers : wPc[w] = "done" /\ wItem[w] = 0

\* C2 witness: a finished run with several workers and several items.
C2_Witness ==
    /\ aggPc = "done"
    /\ N >= 2
    /\ M >= 2
    /\ rcvOutcomes = M
    /\ rcvMarkers = N

\* C3 (as claimed): seenOk <= seen always, and seen = M when the run ends.
C3_SeenEqualsM ==
    /\ seenOk <= seen
    /\ AggFinished => seen = M

\* What line 214 does count: every value received but the last sentinel.
C3_SeenCountsMarkers ==
    /\ seenOk <= seen
    /\ AggFinished => seen = M + N - 1

\* C4 (as claimed): the final counters are those of the run with one
\* worker on the same input and the same transfer results, which are
\* seen = M and seenOk = the number of transfers that returned nil (each
\* of them logged one "Copied" line).
C4_CountsIndependentOfWorkers ==
    aggPc = "done" => <<seen, seenOk>> = <<M, copiedLog>>

\* The counters of the run with one worker, the reference of C4.
C4_SerialCounts ==
    (aggPc = "done" /\ N = 1) => <<seen, seenOk>> = <<M, copiedLog>>

\* C5 (as claimed): a run that ends normally has logged the "Processed"
\* summary exactly once.
C5_SummaryPrintedOnce ==
    aggPc = "done" => summaryLog = 1

\* C6: expectedCloses is N minus the sentinels received and never negative,
\* changes only by a decrement of one in a step that receives a sentinel,
\* and the result loop is left exactly in the step that takes it from a
\* positive value to zero.
C6_ExpectedCloses ==
    /\ [](/\ expectedCloses >= 0
          /\ expectedCloses = N - rcvMarkers
          /\ (aggPc # "loop") <=> (expectedCloses = 0))
    /\ [][/\ expectedCloses' # expectedCloses =>
                /\ expectedCloses' = expectedCloses - 1
                /\ rcvMarkers' = rcvMarkers + 1
          /\ rcvMarkers' # rcvMarkers => expectedCloses' = expectedCloses - 1
          /\ (aggPc = "loop" /\ aggPc' # "loop") =>
                (expectedCloses > 0 /\ expectedCloses' = 0)]_vars

\* C6 witness: the result loop left with the counter at zero after counting
\* sentinels of several workers in between item results.
C6_Witness ==
    /\ aggPc = "done"
    /\ expectedCloses = 0
    /\ N >= 2
    /\ rcvMarkers = N
    /\ rcvOutcomes >= 1

\* An item that a worker has removed and that no worker holds any more.
Released(i) == takes[i] > 0 /\ \A w \in Workers : wItem[w] # i

\* C7 (as claimed): every item is removed from the queue at most once, has
\* at most one result sent for it, and once its worker has let go of it
\* exactly one result was sent for it.
C7_ExactlyOneOutcomePerItem ==
    \A i \in Lines :
        /\ takes[i] <= 1
        /\ Cardinality({w \in Workers : wItem[w] = i}) <= 1
        /\ pushedOut[i] <= 1
        /\ Released(i) => pushedOut[i] = 1

\* C8: a worker whose CopyFile failed sends that error as one value on the
\* results channel and is back at the range over inputs in the same step,
\* the process still alive; and a run that ended normally has removed
\* every item of the input and sent one result for it.
C8_FailureDoesNotStopWorker ==
    /\ [][\A w \in Workers :
            (wPc[w] = "send" /\ wRes[w] \in CopyErrors /\ wPc'[w] # "send") =>
                /\ results' = Append(results, wRes[w])
                /\ wPc'[w] = "recv"
                /\ ~fatal' /\ ~panicked' /\ aggPc' # "done"]_vars
    /\ [](aggPc = "done" =>
            /\ \A i \in Lines : takes[i] = 1 /\ pushedOut[i] = 1
            /\ errorLog + copiedLog = M)

\* C8 witness: the only worker of the pool has completed the transfer of a
\* later item after the failure of an earlier one reached the result loop.
C8_Witness ==
    /\ N = 1
    /\ errorLog >= 1
    /\ wPc[1] = "send"
    /\ wRes[1] = "nil"
    /\ wItem[1] >= 2

\* C9: with a malformed line k in the input, no item of line k or later is
\* ever handed to a worker or transferred, the reader never closes the
\* queue, the result loop never finishes and no summary is logged; reading
\* the malformed line ends the process in that step, and nothing happens
\* afterwards.
C9_MalformedLineAborts ==
    /\ [](\A k \in Lines : Malformed(input[k]) =>
            /\ rdLine <= k
            /\ \A j \in k..Len(input) : takes[j] = 0 /\ pushedOut[j] = 0
            /\ \A w \in Workers : wItem[w] < k
            /\ ~inputsClosed
            /\ aggPc = "loop"
            /\ summaryLog = 0)
    /\ [][(/\ rdPc = "read"
           /\ rdLine \in Lines
           /\ Malformed(input[rdLine])
           /\ <<rdLine, rdPc, inputsClosed, fatal>>' # <<rdLine, rdPc, inputsClosed, fatal>>)
          => fatal']_vars
    /\ [][fatal => UNCHANGED vars]_vars

\* C9 witness: the process ended by a malformed line that is not the first
\* line, with an earlier item already handed to a worker.
C9_Witness ==
    /\ fatal
    /\ rdLine >= 2
    /\ Malformed(input[rdLine])
    /\ takes[1] = 1

\* C10: a worker sends at most one sentinel, has sent it exactly when it
\* has returned, and every worker has sent it when the result loop
\* finishes; no worker sends a result after its sentinel, and a worker that
\* has left its loop holds no item and never ranges over inputs again.
C10_MarkerIsLast ==
    /\ [](/\ lateSends = 0
          /\ \A w \in Workers :
                /\ markers[w] <= 1
                /\ (markers[w] = 1) <=> (wPc[w] = "done")
                /\ AggFinished => markers[w] = 1
                /\ wPc[w] \in {"sentinel", "done"} => wItem[w] = 0)
    /\ [][\A w \in Workers :
            /\ markers[w] >= 1 => markers'[w] = markers[w]
            /\ wPc[w] \in {"sentinel", "done"} => wPc'[w] \in {"sentinel", "done"}]_vars

\* C10 witness: a worker that has sent results for several items sends its
\* one sentinel last and has returned.
C10_Witness ==
    /\ N = 1
    /\ M >= 2
    /\ markers[1] = 1
    /\ wPc[1] = "done"
    /\ \A i \in Lines : pushedOut[i] = 1

\* C11: a worker that finds its context cancelled starts no transfer for
\* the item it holds and leaves its loop for the send of its sentinel; a
\* worker that has left its loop holds no item and never ranges again; and
\* every run in which goroutines keep being scheduled, cancelled at any
\* moment or not at all, comes to the point where the result loop has
\* received N sentinels and main has returned with expectedCloses = 0
\* (unless the reader ends the process on a malformed line first).
C11_CancelStillCompletes ==
    /\ [][\A w \in Workers :
            /\ (ctxErr /\ wPc[w] = "copy" /\ wPc'[w] # "copy") =>
                /\ wPc'[w] = "sentinel"
                /\ copiedLog' = copiedLog
                /\ wRes' = wRes
                /\ results' = results
            /\ wPc[w] \in {"sentinel", "done"} =>
                /\ wPc'[w] \in {"sentinel", "done"}
                /\ wItem'[w] = 0]_vars
    /\ <>(fatal \/ (aggPc = "done" /\ rcvMarkers = N /\ expectedCloses = 0))

\* C11 witness: a cancelled run that main has ended while the reader still
\* waits to hand over an item.
C11_Witness ==
    /\ ctxErr
    /\ aggPc = "done"
    /\ rcvMarkers = N
    /\ rdPc = "send"
    /\ N >= 2

\* C14 (as claimed): a step of the result loop that receives a sentinel
\* decrements expectedCloses and leaves seen and seenOk unchanged; a step
\* that receives another value adds one to seen, adds one to seenOk iff the
\* value is nil, and leaves expectedCloses unchanged.
C14_TwoCasesFrame ==
    [][/\ rcvMarkers' = rcvMarkers + 1 =>
            /\ expectedCloses' = expectedCloses - 1
            /\ seen' = seen
            /\ seenOk' = seenOk
       /\ rcvOutcomes' = rcvOutcomes + 1 =>
            /\ seen' = seen + 1
            /\ seenOk' = seenOk + (IF Head(results) = "nil" THEN 1 ELSE 0)
            /\ expectedCloses' = expectedCloses]_vars

\* nil results and errors sent or about to be sent, not yet received.
InFlight(S) ==
    Cardinality({k \in 1..Len(results) : results[k] \in S})
    + Cardinality({w \in Workers : wPc[w] = "send" /\ wRes[w] \in S})

\* The items whose CopyFile call has returned.
Returned ==
    {i \in Lines : takes[i] > 0 /\ \A w \in Workers : ~(wPc[w] = "copy" /\ wItem[w] = i)}

\* C15: the step of the result loop that receives an error logs one
\* "Error: " line, and no other step logs one (none for nil, none for a
\* sentinel); every "Copied" line belongs to one transfer that returned
\* nil, every "Error: " line to one that failed, and when the run ends
\* there is one line for each of the M transfers.
C15_OneLogLinePerTransfer ==
    /\ [][/\ (rcvMarkers' + rcvOutcomes' # rcvMarkers + rcvOutcomes) =>
                errorLog' = errorLog + (IF Head(results) \in CopyErrors THEN 1 ELSE 0)
          /\ errorLog' # errorLog =>
                /\ results # <<>>
                /\ Head(results) \in CopyErrors
                /\ results' = Tail(results)]_vars
    /\ [](/\ copiedLog = seenOk + InFlight({"nil"})
          /\ errorLog + InFlight(CopyErrors) + copiedLog = Cardinality(Returned)
          /\ AggFinished => (copiedLog = seenOk /\ errorLog + copiedLog = M))

\* C15 witness: a finished run of several workers with a failed and a
\* successful transfer, each with its one line.
C15_Witness ==
    /\ aggPc = "done"
    /\ N >= 2
    /\ errorLog >= 1
    /\ copiedLog >= 1
    /\ errorLog + copiedLog = M

\* C18: inputs is closed by the reader, once, when every item has been
\* handed to a worker, and nothing is sent on it afterwards; results is
\* closed by the result loop, once, when every worker has returned, and
\* nothing is sent on it afterwards (no send panics); a run that main ends
\* has closed both.
C18_ChannelDiscipline ==
    /\ [](/\ inputsClosed =>
                /\ rdPc = "closed"
                /\ rdLine = M + 1
                /\ \A i \in Lines : takes[i] = 1
          /\ resultsClosed =>
                /\ aggPc # "loop"
                /\ \A w \in Workers : wPc[w] = "done"
          /\ ~panicked
          /\ AggFinished => (inputsClosed /\ resultsClosed))
    /\ [][/\ inputsClosed => (inputsClosed' /\ takes' = takes /\ rdPc' = rdPc)
          /\ inputsClosed' # inputsClosed => (rdPc = "read" /\ rdPc' = "closed")
          /\ resultsClosed =>
                /\ resultsClosed'
                /\ results' = results
                /\ markers' = markers
                /\ pushedOut' = pushedOut
          /\ resultsClosed' # resultsClosed =>
                (aggPc = "loop" /\ aggPc' = "return")]_vars

\* C18 witness: a finished run of several workers and items with both
\* channels closed.
C18_Witness ==
    /\ aggPc = "done"
    /\ inputsClosed
    /\ resultsClosed
    /\ N >= 2
    /\ M >= 2

\* C19 (as claimed): with N = 0 the run never ends, for any input.
C19_NeverEnds ==
    N = 0 => ~RunEnded

\* C19 (amended): with N = 0 no item is ever handed over or transferred,
\* nothing is ever sent on results, the result loop can never take a step
\* (main never returns, no summary), and the reader never gets past the
\* first line: it ends the process with log.Fatalf when that line is
\* malformed, and waits for ever to hand it over otherwise.
C19_ZeroWorkers ==
    N = 0 =>
        /\ aggPc = "loop"
        /\ ~ENABLED AggStep
        /\ ~ENABLED AggReturn
        /\ results = <<>> /\ ~resultsClosed
        /\ rcvMarkers = 0 /\ rcvOutcomes = 0
        /\ \A i \in Lines : takes[i] = 0 /\ pushedOut[i] = 0
        /\ copiedLog = 0 /\ errorLog = 0 /\ summaryLog = 0
        /\ rdLine = 1
        /\ fatal => (M >= 1 /\ Malformed(input[1]))
        /\ RunEnded => fatal

\* C19 witness: no worker, and the reader stuck handing over the first
\* item of a longer input, with no step left to take.
C19_Witness ==
    /\ N = 0
    /\ rdPc = "send"
    /\ M >= 2
    /\ ~ENABLED Next

\* C13 (as claimed): the tier passed to an upload is in the allow-list,
\* and it is Hot when no -azure-tier flag was given.
C13_UploadTierInAllowList ==
    uploadTier # "none" =>
        /\ uploadTier \in AllowList
        /\ setArg = "none" => uploadTier = "Hot"

\* C17 (as claimed): the last Set(v) call returned an error if v is neither
\* in the allow-list nor empty, and for v in the allow-list it returned nil
\* and Get() returns v, whatever was set before.
C17_SetValidates ==
    setArg # "none" =>
        /\ setArg \notin (AllowList \cup {""}) => setErr = "error"
        /\ setArg \in AllowList => (setErr = "nil" /\ tierVal = setArg)

\* What Set does guarantee: a call that returns nil leaves a tier of the
\* allow-list in val (not necessarily the one asked for).
C17_NilMeansSomeTier ==
    setErr = "nil" => tierVal \in AllowList

\* C12: the container name computed for a bucket has the length of the
\* bucket name, '-' wherever the bucket name has '.', and the character of
\* the bucket name, case included, everywhere else (so it is a function of
\* the bucket name alone).
C12_ContainerMapping ==
    mapPc = "mapped" =>
        /\ Len(azureContainer) = Len(bucket)
        /\ \A i \in 1..Len(bucket) :
            azureContainer[i] = IF bucket[i] = "." THEN "-" ELSE bucket[i]

\* C12 witness: a name with two dots around an upper-case letter.
C12_Witness ==
    /\ mapPc = "mapped"
    /\ bucket = <<".", "A", ".">>
    /\ azureContainer = <<"-", "A", "-">>

\* The number of % signs of s before position i.
PctBefore(s, i) == Cardinality({j \in 1..(i - 1) : s[j] = "%"})

\* Position i of s holds one of the two hex digits of an escape.
EscapeDigit(s, i) == (i > 1 /\ s[i - 1] = "%") \/ (i > 2 /\ s[i - 2] = "%")

\* d is s with every %XX replaced by its byte, every + by plus, and every
\* other character kept, in the same order.
DecodesTo(s, d, plus) ==
    /\ Len(d) = Len(s) - 2 * PctBefore(s, Len(s) + 1)
    /\ \A i \in 1..Len(s) :
        ~EscapeDigit(s, i) =>
            d[i - 2 * PctBefore(s, i)] =
                IF s[i] = "%" THEN ByteChar(16 * Unhex(s[i + 1]) + Unhex(s[i + 2]))
                ELSE IF s[i] = "+" THEN plus
                ELSE s[i]

\* C16 (as claimed): the key of the download and the key of the upload are
\* the same string, the input key with every %XX replaced by its byte and
\* every other character unchanged.
C16_OnlyEscapesDecoded ==
    keyPc = "upload" =>
        /\ srcKey = dstKey
        /\ DecodesTo(wiKey, dstKey, "+")

\* C16 (amended): the same, but every '+' of the input key is a space in
\* the key used.
C16_EscapesAndPlusDecoded ==
    keyPc = "upload" =>
        /\ srcKey = dstKey
        /\ DecodesTo(wiKey, dstKey, " ")

\* C16 witness: k%20 was uploaded as "k ".
C16_Witness ==
    /\ keyPc = "upload"
    /\ wiKey = <<"k", "%", "2", "0">>
    /\ srcKey = <<"k", " ">>
    /\ dstKey = <<"k", " ">>

====
